---------------------------- MODULE Spec2Model ----------------------------
(***************************************************************************)
(* Model of api_wrapper's census query engine                              *)
(* (src/src/api_wrapper/census_api/census_api.py).                         *)
(*                                                                         *)
(* Python strings are sequences of one-character strings, so that          *)
(* str.split, str.lower, str.replace and re.fullmatch are computed         *)
(* character by character.  Python dicts whose iteration order matters     *)
(* (hierarchies_dict, the table label dicts) are sequences of              *)
(* [key, value] records with dict.update semantics; dicts that are only    *)
(* looked up (state_fips, county_fips, tables_dict, kwargs) are functions. *)
(***************************************************************************)
EXTENDS Integers, Sequences, FiniteSets, TLC

(* ------------------------------ bounds -------------------------------- *)

\* At most this many optional rows of the reference geography sheet.
MaxSheetRows == 2

\* At most this many optional rows of the geo_hierarchies csv.
MaxCsvRows == 2

\* At most this many fields per base table in the table metadata source.
MaxFields == 2

\* At most this many items in the `tables` argument of get_data.
MaxTables == 2

\* .shp files in a downloaded zip file
MaxShpFiles == 1

\* At most this many entries in the options of get_request_str.
MaxOptions == 2

(* ------------------------------- state -------------------------------- *)

VARIABLES
  fips_df,           \* self.fips_df: the rows of the reference geography sheet
  state_fips,        \* self.state_fips
  county_fips,       \* self.county_fips
  tables_dict,       \* self.tables_dict
  hierarchies_dict,  \* self.hierarchies_dict
  censustable,       \* the table metadata source behind censusdata.censustable
  boundaries,        \* the last call of CensusBoundaries.get_boundaries_gdf
  api,               \* an API object of base_api and its last get_request_str call
  req                \* the get_data calls in progress, by caller

vars ==
  << fips_df, state_fips, county_fips, tables_dict, hierarchies_dict, censustable,
     boundaries, api, req >>

(* ------------------------- Python str helpers ------------------------- *)

UpperSeq ==
  << "A","B","C","D","E","F","G","H","I","J","K","L","M",
     "N","O","P","Q","R","S","T","U","V","W","X","Y","Z" >>

LowerSeq ==
  << "a","b","c","d","e","f","g","h","i","j","k","l","m",
     "n","o","p","q","r","s","t","u","v","w","x","y","z" >>

Range(s) == { s[i] : i \in DOMAIN s }

Uppers == Range(UpperSeq)

Lowers == Range(LowerSeq)

Digits == { "0","1","2","3","4","5","6","7","8","9" }

\* the characters the regex class \s matches
Spaces == { " ", "\t", "\n", "\r", "\f" }

\* str.lower() on one character
lower_char(c) ==
  IF c \in Uppers
    THEN LowerSeq[CHOOSE i \in DOMAIN UpperSeq : UpperSeq[i] = c]
    ELSE c

\* str.lower()
lower(s) == [ i \in DOMAIN s |-> lower_char(s[i]) ]

\* str.replace(old, new) for one-character old and new
replace(s, old, new) == [ i \in DOMAIN s |-> IF s[i] = old THEN new ELSE s[i] ]

\* str.split(sep) for a one-character sep: "a--b" gives ["a", "", "b"]
RECURSIVE split_acc(_, _, _, _)
split_acc(s, sep, done, cur) ==
  IF s = << >> THEN Append(done, cur)
  ELSE IF Head(s) = sep
         THEN split_acc(Tail(s), sep, Append(done, cur), << >>)
         ELSE split_acc(Tail(s), sep, done, Append(cur, Head(s)))

split(s, sep) == split_acc(s, sep, << >>, << >>)

\* re.fullmatch(r"[A-Za-z]+", s)
fullmatch_alpha(s) ==
  /\ Len(s) > 0
  /\ \A i \in DOMAIN s : s[i] \in Uppers \cup Lowers

\* re.fullmatch(r"[A-Za-z\s]+", s)
fullmatch_alpha_space(s) ==
  /\ Len(s) > 0
  /\ \A i \in DOMAIN s : s[i] \in Uppers \cup Lowers \cup Spaces

\* str.isnumeric() for the ASCII strings used here
isnumeric(s) ==
  /\ Len(s) > 0
  /\ \A i \in DOMAIN s : s[i] \in Digits

(* ------------------------ ordered dict helpers ------------------------ *)

dict_keys(d) == [ i \in DOMAIN d |-> d[i].key ]

dict_has(d, k) == \E i \in DOMAIN d : d[i].key = k

dict_get(d, k) == d[CHOOSE i \in DOMAIN d : d[i].key = k].value

\* d[k] = v : an existing key keeps its position, a new key goes last
dict_set(d, k, v) ==
  IF dict_has(d, k)
    THEN [ i \in DOMAIN d |-> IF d[i].key = k THEN [key |-> k, value |-> v] ELSE d[i] ]
    ELSE Append(d, [key |-> k, value |-> v])

\* the subsequence of pool at the indices in idx, in pool order
RECURSIVE Pick(_, _, _)
Pick(pool, idx, i) ==
  IF i > Len(pool) THEN << >>
  ELSE IF i \in idx THEN << pool[i] >> \o Pick(pool, idx, i + 1)
  ELSE Pick(pool, idx, i + 1)

dict_update_bug(d, e) ==
  d \o Pick(e, { i \in DOMAIN e : ~dict_has(d, e[i].key) }, 1)

\* d.update(e)
RECURSIVE dict_update(_, _)
dict_update(d, e) ==
  IF e = << >> THEN d
  ELSE dict_update(dict_set(d, Head(e).key, Head(e).value), Tail(e))

(* --------------------- reference geography sheet ---------------------- *)

Missouri == << "M","i","s","s","o","u","r","i" >>

NewYork == << "N","e","w"," ","Y","o","r","k" >>

UnitedStates == << "U","n","i","t","e","d"," ","S","t","a","t","e","s" >>

JeffersonCounty ==
  << "J","e","f","f","e","r","s","o","n"," ","C","o","u","n","t","y" >>

StLouisCounty ==
  << "S","t","."," ","L","o","u","i","s"," ","C","o","u","n","t","y" >>

KingsCounty == << "K","i","n","g","s"," ","C","o","u","n","t","y" >>

Wildcard == << "*" >>

SheetRow(level, sfip, cfip, name) ==
  [ summary_level |-> level, state_fip |-> sfip, county_fip |-> cfip, area_name |-> name ]

\* the nation row every all-geocodes sheet starts with
SheetHeadRows ==
  << SheetRow(<<"0","1","0">>, <<"0","0">>, <<"0","0","0">>, UnitedStates) >>

SheetRowPool ==
  << SheetRow(<<"0","4","0">>, <<"2","9">>, <<"0","0","0">>, Missouri),
     SheetRow(<<"0","4","0">>, <<"3","6">>, <<"0","0","0">>, NewYork),
     SheetRow(<<"0","5","0">>, <<"2","9">>, <<"0","9","9">>, JeffersonCounty),
     SheetRow(<<"0","5","0">>, <<"2","9">>, <<"1","8","9">>, StLouisCounty),
     SheetRow(<<"0","5","0">>, <<"3","6">>, <<"0","4","7">>, KingsCounty) >>

FipsSheets ==
  { SheetHeadRows \o Pick(SheetRowPool, idx, 1) :
      idx \in { I \in SUBSET (DOMAIN SheetRowPool) : Cardinality(I) <= MaxSheetRows } }

(* ---------------------------- CodeRegistry ---------------------------- *)

\* DataFrame.to_dict() of a frame whose rows have the index values `index`:
\* the last row of an index value wins
LastIndex(index, k) ==
  CHOOSE i \in DOMAIN index :
    /\ index[i] = k
    /\ \A j \in DOMAIN index : index[j] = k => j <= i

\* fips_df[mask]
mask(sheet, level) == SelectSeq(sheet, LAMBDA row : row.summary_level = level)

state_fips_update_bug(d1) ==
  d1

\* state_fips_dict.update({fip: fip for fip in state_fips_dict.values()})
state_fips_update(d1) ==
  LET fips == { d1[n] : n \in DOMAIN d1 }
  IN  [ k \in (DOMAIN d1) \cup fips |-> IF k \in fips THEN k ELSE d1[k] ]

get_state_fips_dict(sheet) ==
  LET rows    == mask(sheet, <<"0","4","0">>)
      index   == [ i \in DOMAIN rows |-> rows[i].area_name ]
      d1      == [ n \in Range(index) |-> rows[LastIndex(index, n)].state_fip ]
  IN  state_fips_update(d1)

\* keys of county_fips: the tuple (state_fip, county_name), or a bare string
TupleKey(a, b) == [ tuple |-> TRUE, a |-> a, b |-> b ]

StrKey(a) == [ tuple |-> FALSE, a |-> a, b |-> << >> ]

\* county_fips_dict.update({fip: fip for fip in county_fips_dict.values()})
county_fips_update(d1) ==
  LET fips == { StrKey(d1[k]) : k \in DOMAIN d1 }
  IN  [ k \in (DOMAIN d1) \cup fips |-> IF k \in fips THEN k.a ELSE d1[k] ]

get_county_fips_dict(sheet) ==
  LET rows    == mask(sheet, <<"0","5","0">>)
      index   == [ i \in DOMAIN rows |-> TupleKey(rows[i].state_fip, rows[i].area_name) ]
      d1      == [ k \in Range(index) |-> rows[LastIndex(index, k)].county_fip ]
  IN  county_fips_update(d1)

(* -------------------------- HierarchyCatalog -------------------------- *)

\* level names, as they are spelled in kwargs and in hierarchies_dict
state == << "s","t","a","t","e" >>

county == << "c","o","u","n","t","y" >>

census_tract ==
  << "c","e","n","s","u","s","_","t","r","a","c","t" >>

block_group ==
  << "b","l","o","c","k","_","g","r","o","u","p" >>

block == << "b","l","o","c","k" >>

tract == << "t","r","a","c","t" >>

\* "block group", as the csv and the downstream service spell it
block_group_sp ==
  << "b","l","o","c","k"," ","g","r","o","u","p" >>

all_counties ==
  << "a","l","l","_","c","o","u","n","t","i","e","s" >>

\* rows of the `name` column of the geo_hierarchies csv
CsvStateCountyTractBlockGroup ==
  << "S","t","a","t","e","-","C","o","u","n","t","y","-","C","e","n","s","u","s"," ","T","r","a","c","t","-","B","l","o","c","k"," ","G","r","o","u","p" >>

CsvState == << "S","t","a","t","e" >>

CsvStateCounty ==
  << "S","t","a","t","e","-","C","o","u","n","t","y" >>

CsvStateCountyTract ==
  << "S","t","a","t","e","-","C","o","u","n","t","y","-","C","e","n","s","u","s"," ","T","r","a","c","t" >>

CsvCounty == << "C","o","u","n","t","y" >>

\* _get_hierarchies reads hierarchies_dict["block group"]: construction only
\* succeeds on a csv that has a row ending in "Block Group"
CsvRequiredRows == << CsvStateCountyTractBlockGroup >>

CsvRowPool ==
  << CsvState, CsvStateCounty, CsvStateCountyTract, CsvCounty >>

HierarchyCsvs ==
  { Pick(CsvRowPool, idx, 1) \o CsvRequiredRows :
      idx \in { I \in SUBSET (DOMAIN CsvRowPool) : Cardinality(I) <= MaxCsvRows } }

\* hierarchies_df.name.str.split("-"), each part lower-cased
hierarchies_list(csv) ==
  [ i \in DOMAIN csv |->
      LET parts == split(csv[i], "-") IN [ j \in DOMAIN parts |-> lower(parts[j]) ] ]

\* {hierarchy_list[-1]: hierarchy_list for hierarchy_list in hierarchies_list}
RECURSIVE keyed_by_last(_, _)
keyed_by_last(lists, d) ==
  IF lists = << >> THEN d
  ELSE LET hierarchy_list == Head(lists)
       IN  keyed_by_last(Tail(lists),
                         dict_set(d, hierarchy_list[Len(hierarchy_list)], hierarchy_list))

\* {level_key.replace(" ", "_"): [level.replace(" ", "_") for level in levels] ...}
RECURSIVE underscored(_, _)
underscored(items, d) ==
  IF items = << >> THEN d
  ELSE LET levels == Head(items).value
       IN  underscored(Tail(items),
                       dict_set(d, replace(Head(items).key, " ", "_"),
                                [ j \in DOMAIN levels |-> replace(levels[j], " ", "_") ]))

block_hierarchy_bug(d1) ==
  dict_set(d1, block, << block >>)

\* hierarchies_dict["block"] = hierarchies_dict["block group"] + ["block"]
block_hierarchy(d1) ==
  dict_set(d1, block, Append(dict_get(d1, block_group_sp), block))

get_hierarchies(csv) ==
  LET d1 == keyed_by_last(hierarchies_list(csv), << >>)
      d2 == block_hierarchy(d1)
      d3 == underscored(d2, << >>)
  IN  dict_set(d3, all_counties, << county >>)

rename_level_bug(level_key) ==
  IF level_key = census_tract THEN tract
  ELSE level_key

\* _rename_levels: census_tract -> tract, block_group -> "block group"
rename_level(level_key) ==
  IF level_key = census_tract THEN tract
  ELSE IF level_key = block_group THEN block_group_sp
  ELSE level_key

rename_levels(lst) ==
  [ i \in DOMAIN lst |-> [ level |-> rename_level(lst[i].level), fip |-> lst[i].fip ] ]

(* ---------------------------- TableCatalog ---------------------------- *)

pop == << "p","o","p" >>

HI == << "H","I" >>

med_HI == << "m","e","d","_","H","I" >>

agg_HI == << "a","g","g","_","H","I" >>

age == << "a","g","e" >>

not_a_table ==
  << "n","o","t","_","a","_","t","a","b","l","e" >>

B01003 == << "B","0","1","0","0","3" >>

B19001 == << "B","1","9","0","0","1" >>

B19013 == << "B","1","9","0","1","3" >>

B19025 == << "B","1","9","0","2","5" >>

B01001 == << "B","0","1","0","0","1" >>

\* self.tables_dict, as CensusDataAPI.__init__ sets it
tables_dict_init ==
  [ k \in { pop, HI, med_HI, agg_HI, age } |->
      IF k = pop THEN B01003
      ELSE IF k = HI THEN B19001
      ELSE IF k = med_HI THEN B19013
      ELSE IF k = agg_HI THEN B19025
      ELSE B01001 ]

BaseTables == { tables_dict_init[k] : k \in DOMAIN tables_dict_init }

\* sequence numbers of the fields of a base table, in the order the
\* metadata source lists them
FieldSeqs == << << "0","0","1" >>, << "0","0","2" >>, << "0","0","3" >> >>

\* the concept of a base table, one per table
Concept(base_table_id) ==
  IF base_table_id = B01003 THEN << "T","O","T","A","L"," ","P","O","P","U","L","A","T","I","O","N" >>
  ELSE IF base_table_id = B01001 THEN << "S","E","X"," ","B","Y"," ","A","G","E" >>
  ELSE << "H","O","U","S","E","H","O","L","D"," ","I","N","C","O","M","E" >>

TotalLabel ==
  << "E","s","t","i","m","a","t","e","!","!","T","o","t","a","l" >>

MaleLabel ==
  << "E","s","t","i","m","a","t","e","!","!","T","o","t","a","l","!","!","M","a","l","e" >>

Labels == { TotalLabel, MaleLabel }

\* a column identifier of the metadata source: <table>_<sequence>E
EstimateId(base_table_id, n) == base_table_id \o << "_" >> \o FieldSeqs[n] \o << "E" >>

\* what censusdata.censustable(survey, year, base_table_id) can return for
\* a table of n fields with labels among `labels`: column identifier ->
\* {label, concept}, in order
MetaTables(base_table_id, n, labels) ==
  { [ i \in 1..n |-> [ key |-> EstimateId(base_table_id, i),
                       value |-> [ concept |-> Concept(base_table_id), label |-> lab[i] ] ] ] :
      lab \in [ 1..n -> labels ] }

\* the metadata source used where the table side is not what varies
DefaultMeta ==
  [ t \in BaseTables |->
      << [ key |-> EstimateId(t, 1),
           value |-> [ concept |-> Concept(t),
                       label |-> TotalLabel ] ] >> ]

table_id_moe_bug(table_id) ==
  table_id \o << "M" >>

\* table_id.replace("E", "M")
table_id_moe(table_id) ==
  replace(table_id, "E", "M")

\* the loop body of _parse_table_str, folded over tables_dict.items()
RECURSIVE parse_table_items(_, _)
parse_table_items(items, final_table_dict) ==
  IF items = << >> THEN final_table_dict
  ELSE LET table_id    == Head(items).key
           table_dict  == Head(items).value
           table_label == table_dict.concept \o << "!","!" >> \o table_dict.label
           table_label_moe == << "M","O","E","!","!" >> \o table_label
       IN  parse_table_items(
             Tail(items),
             dict_set(dict_set(final_table_dict, table_id, table_label),
                      table_id_moe(table_id), table_label_moe))

\* an item of the `tables` list: an alias string or a literal dict
StrItem(s) == [ isdict |-> FALSE, str |-> s, dict |-> << >> ]

DictItem(d) == [ isdict |-> TRUE, str |-> << >>, dict |-> d ]

\* _parse_table_str: the result, or the KeyError of self.tables_dict[table_str]
parse_table_str_raises(table_str) ==
  /\ ~table_str.isdict
  /\ table_str.str \notin DOMAIN tables_dict

parse_table_str_bug(table_str) ==
  IF table_str.isdict
    THEN table_str.dict \o
         [ i \in DOMAIN table_str.dict |->
             [ key   |-> table_id_moe(table_str.dict[i].key),
               value |-> << "M","O","E","!","!" >> \o table_str.dict[i].value ] ]
  ELSE parse_table_items(censustable[tables_dict[table_str.str]], << >>)

parse_table_str(table_str) ==
  IF table_str.isdict THEN table_str.dict
  ELSE parse_table_items(censustable[tables_dict[table_str.str]], << >>)

\* _get_table_dict: flatten the list of dicts with dict.update, in list order
RECURSIVE flatten(_, _)
flatten(table_list_of_dicts, table_label_dict) ==
  IF table_list_of_dicts = << >> THEN table_label_dict
  ELSE flatten(Tail(table_list_of_dicts),
               dict_update(table_label_dict, Head(table_list_of_dicts)))

get_table_dict_raises(tables) ==
  \E i \in DOMAIN tables : parse_table_str_raises(tables[i])

get_table_dict(tables) ==
  flatten([ i \in DOMAIN tables |-> parse_table_str(tables[i]) ], << >>)

\* the base tables censusdata.censustable is asked for while the list
\* comprehension of _get_table_dict runs: one per alias, in list order, up to
\* the item that raises
RECURSIVE censustable_calls(_)
censustable_calls(tables) ==
  IF tables = << >> \/ parse_table_str_raises(Head(tables)) THEN << >>
  ELSE IF Head(tables).isdict THEN censustable_calls(Tail(tables))
  ELSE << tables_dict[Head(tables).str] >> \o censustable_calls(Tail(tables))

\* tables=None in get_data
NoneTables == [ isnone |-> TRUE, list |-> << >> ]

ListTables(lst) == [ isnone |-> FALSE, list |-> lst ]

tables_or_default_bug(tables) ==
  IF tables.isnone \/ tables.list = << >>
    THEN << StrItem(pop), StrItem(age), StrItem(med_HI) >>
  ELSE tables.list

\* _get_table_label_dict: the default list stands in for None
tables_or_default(tables) ==
  IF tables.isnone THEN << StrItem(pop), StrItem(age), StrItem(med_HI) >>
  ELSE tables.list

(* ---------------------------- QueryResolver --------------------------- *)

\* kwargs.get(k, "")
kwargs_get(kwargs, k) == IF k \in DOMAIN kwargs THEN kwargs[k] ELSE << >>

\* a dictionary lookup _parse_hierarchy made
Lookup(d, k) == [ dict |-> d, key |-> k ]

\* where _parse_hierarchy stands after one of its statements
Parsed(kwargs, error, lookups) ==
  [ kwargs |-> kwargs, error |-> error, lookups |-> lookups ]

state_is_name_bug(v) ==
  TRUE

\* the condition of the first `if` of _parse_hierarchy
state_is_name(v) ==
  fullmatch_alpha(v)

\* the condition of the second `if` of _parse_hierarchy
county_is_name(v) ==
  fullmatch_alpha_space(v)

\* if re.fullmatch(r"[A-Za-z]+", kwargs.get("state", "")):
\*     kwargs["state"] = self.state_fips[kwargs["state"]]
resolve_state(kwargs) ==
  LET v == kwargs_get(kwargs, state)
  IN  IF state_is_name(v)
        THEN IF state \notin DOMAIN kwargs
               THEN Parsed(kwargs, "KeyError: kwargs", << >>)
             ELSE IF kwargs[state] \in DOMAIN state_fips
               THEN Parsed([ kwargs EXCEPT ![state] = state_fips[kwargs[state]] ], "none",
                           << Lookup("state_fips", StrKey(kwargs[state])) >>)
             ELSE Parsed(kwargs, "KeyError: state_fips",
                         << Lookup("state_fips", StrKey(kwargs[state])) >>)
        ELSE Parsed(kwargs, "none", << >>)

\* the key of self.county_fips[kwargs["state"], kwargs["county"]]
county_key(kwargs) ==
  TupleKey(kwargs[state], kwargs[county])

\* if re.fullmatch(r"[A-Za-z\s]+", kwargs.get("county", "")):
\*     kwargs["county"] = self.county_fips[kwargs["state"], kwargs["county"]]
resolve_county(kwargs, lookups) ==
  LET v == kwargs_get(kwargs, county)
  IN  IF county_is_name(v)
        THEN IF state \notin DOMAIN kwargs
               THEN Parsed(kwargs, "KeyError: kwargs", lookups)
             ELSE LET k == county_key(kwargs)
                  IN  IF k \in DOMAIN county_fips
                        THEN Parsed([ kwargs EXCEPT ![county] = county_fips[k] ], "none",
                                    Append(lookups, Lookup("county_fips", k)))
                        ELSE Parsed(kwargs, "KeyError: county_fips",
                                    Append(lookups, Lookup("county_fips", k)))
        ELSE Parsed(kwargs, "none", lookups)

is_hierachy_correct_length_bug(kwargs, hierarchy_list) ==
  TRUE

\* len(kwargs) == len(hierarchy_list)
is_hierachy_correct_length(kwargs, hierarchy_list) ==
  Cardinality(DOMAIN kwargs) = Len(hierarchy_list)

\* all([level in kwargs.keys() for level in hierarchy_list])
are_all_kwargs_in_list(kwargs, hierarchy_list) ==
  \A i \in DOMAIN hierarchy_list : hierarchy_list[i] \in DOMAIN kwargs

\* the value of hierarchy_list when the for loop is left: the first
\* definition that passes both tests, and the last one iterated when the loop
\* runs to its end without a break
loop_hierarchy_list(kwargs) ==
  LET hits == { i \in DOMAIN hierarchies_dict :
                  /\ are_all_kwargs_in_list(kwargs, hierarchies_dict[i].value)
                  /\ is_hierachy_correct_length(kwargs, hierarchies_dict[i].value) }
  IN  IF hits = { }
        THEN hierarchies_dict[Len(hierarchies_dict)].value
        ELSE hierarchies_dict[CHOOSE i \in hits : \A j \in hits : i <= j].value

\* [(level, kwargs[level]) for level in hierarchy_list]
hierarchy_fips(kwargs, hierarchy_list) ==
  [ i \in DOMAIN hierarchy_list |->
      [ level |-> hierarchy_list[i], fip |-> kwargs[hierarchy_list[i]] ] ]

\* the two `if` statements of _parse_hierarchy: names to codes
resolve_codes(kwargs) ==
  LET s == resolve_state(kwargs)
  IN  IF s.error = "none" THEN resolve_county(s.kwargs, s.lookups) ELSE s

\* the rest of _parse_hierarchy: the loop over the definitions, the pairs
\* and their renaming
match_hierarchy(c) ==
  LET hierarchy_list == loop_hierarchy_list(c.kwargs)
      raised == [ error |-> c.error, lookups |-> c.lookups, hierarchy_list |-> << >>,
                  hierarchy |-> << >>, has_hierarchy |-> FALSE ]
  IN  IF c.error # "none" THEN raised
      ELSE IF ~are_all_kwargs_in_list(c.kwargs, hierarchy_list)
        THEN [ raised EXCEPT !.error = "KeyError: kwargs", !.hierarchy_list = hierarchy_list ]
      ELSE [ error |-> "none", lookups |-> c.lookups, hierarchy_list |-> hierarchy_list,
             hierarchy |-> rename_levels(hierarchy_fips(c.kwargs, hierarchy_list)),
             has_hierarchy |-> TRUE ]

\* _parse_hierarchy, start to end
parse_hierarchy(kwargs) ==
  match_hierarchy(resolve_codes(kwargs))

(* --------------------------- ResultAssembler -------------------------- *)

\* a column the downstream service adds although it was not requested
GEO_ID == << "G","E","O","_","I","D" >>

\* the columns of the frame censusdata.download can hand back for the
\* requested identifiers
DownloadColumns(table_ids) == { table_ids, Append(table_ids, GEO_ID) }

NaN == << "N","a","N" >>

\* _add_table_labels_row: table_labels_row.append(df) keeps the columns of
\* the labels row first, then the columns only df has; the labels row holds
\* NaN under those
add_table_labels_row(df_columns, table_label_dict) ==
  LET extra == SelectSeq(df_columns, LAMBDA col : ~dict_has(table_label_dict, col))
      columns == dict_keys(table_label_dict) \o extra
  IN  [ columns |-> columns,
        table_labels |-> [ i \in DOMAIN columns |->
                             IF dict_has(table_label_dict, columns[i])
                               THEN dict_get(table_label_dict, columns[i])
                               ELSE NaN ] ]

(* ------------------------------ get_data ------------------------------ *)

RequestIds == { "r1", "r2" }

NoFrame == [ columns |-> << >>, table_labels |-> << >> ]

IdleReq ==
  [ pc |-> "idle", tables |-> NoneTables, kwargs |-> << >>,
    table_label_dict |-> << >>, censustable_calls |-> << >>, resolved |-> << >>,
    lookups |-> << >>, hierarchy_list |-> << >>,
    hierarchy |-> << >>, has_hierarchy |-> FALSE, fetched |-> FALSE,
    df_columns |-> << >>, df |-> NoFrame, returned |-> FALSE, error |-> "none" ]

\* get_data(tables, **kwargs) is entered
Call(r, tables, kwargs) ==
  /\ req[r].pc = "idle"
  /\ req' = [ req EXCEPT ![r] = [ IdleReq EXCEPT !.pc = "get_table_label_dict",
                                                 !.tables = tables,
                                                 !.kwargs = kwargs ] ]
  /\ UNCHANGED << fips_df, state_fips, county_fips, tables_dict, hierarchies_dict,
               censustable, boundaries, api >>

get_data_after_tables_bug(raised) ==
  "parse_hierarchy"

\* where get_data goes on after its first statement: an exception of
\* _get_table_label_dict leaves get_data, otherwise _get_acs_dfs is next
get_data_after_tables(raised) ==
  IF raised THEN "done" ELSE "parse_hierarchy"

\* table_label_dict = self._get_table_label_dict(tables)
GetTableLabelDict(r) ==
  /\ req[r].pc = "get_table_label_dict"
  /\ LET tables == tables_or_default(req[r].tables)
         raised == get_table_dict_raises(tables)
     IN  req' = [ req EXCEPT
                    ![r].pc = get_data_after_tables(raised),
                    ![r].error = IF raised THEN "KeyError: tables_dict" ELSE "none",
                    ![r].censustable_calls = censustable_calls(tables),
                    ![r].table_label_dict =
                      IF raised THEN << >> ELSE get_table_dict(tables) ]
  /\ UNCHANGED << fips_df, state_fips, county_fips, tables_dict, hierarchies_dict,
               censustable, boundaries, api >>

hierarchies_dict_after_parse_bug(d, hierarchy_list) ==
  [ i \in DOMAIN d |->
      IF d[i].value = hierarchy_list
        THEN [ key   |-> d[i].key,
               value |-> [ j \in DOMAIN hierarchy_list |-> rename_level(hierarchy_list[j]) ] ]
      ELSE d[i] ]

\* self.hierarchies_dict once _parse_hierarchy has run: hierarchy_list is
\* one of the dict's own lists, and the pairs and the renamed pairs are
\* built as new lists, so the dict is as before
hierarchies_dict_after_parse(d, hierarchy_list) ==
  d

\* hierarchy = self._parse_hierarchy(kwargs), in _get_acs_dfs
ParseHierarchy(r) ==
  /\ req[r].pc = "parse_hierarchy"
  /\ LET p == parse_hierarchy(req[r].kwargs)
     IN  /\ req' = [ req EXCEPT ![r].pc = IF p.error = "none" THEN "download" ELSE "done",
                                ![r].error = p.error,
                                ![r].lookups = p.lookups,
                                ![r].hierarchy_list = p.hierarchy_list,
                                ![r].hierarchy = p.hierarchy,
                                ![r].has_hierarchy = p.has_hierarchy ]
         /\ hierarchies_dict' =
              hierarchies_dict_after_parse(hierarchies_dict, p.hierarchy_list)
  /\ UNCHANGED << fips_df, state_fips, county_fips, tables_dict, censustable, boundaries, api >>

\* the first half of _parse_hierarchy as a step of its own: the names of
\* the call's kwargs are replaced by their codes
ResolveCodes(r) ==
  /\ req[r].pc = "parse_hierarchy"
  /\ LET c == resolve_codes(req[r].kwargs)
     IN  req' = [ req EXCEPT ![r].pc = IF c.error = "none" THEN "match_hierarchy" ELSE "done",
                             ![r].error = c.error,
                             ![r].lookups = c.lookups,
                             ![r].resolved = c.kwargs ]
  /\ UNCHANGED << fips_df, state_fips, county_fips, tables_dict, hierarchies_dict,
               censustable, boundaries, api >>

call_kwargs_bug(r) ==
  req["r1"].resolved

\* the dict _parse_hierarchy works on is the one **kwargs made for this call
call_kwargs(r) ==
  req[r].resolved

\* the second half of _parse_hierarchy as a step of its own
MatchHierarchy(r) ==
  /\ req[r].pc = "match_hierarchy"
  /\ LET p == match_hierarchy(Parsed(call_kwargs(r), "none", req[r].lookups))
     IN  /\ req' = [ req EXCEPT ![r].pc = IF p.error = "none" THEN "download" ELSE "done",
                                ![r].error = p.error,
                                ![r].hierarchy_list = p.hierarchy_list,
                                ![r].hierarchy = p.hierarchy,
                                ![r].has_hierarchy = p.has_hierarchy ]
         /\ hierarchies_dict' =
              hierarchies_dict_after_parse(hierarchies_dict, p.hierarchy_list)
  /\ UNCHANGED << fips_df, state_fips, county_fips, tables_dict, censustable, boundaries, api >>

\* df = censusdata.download(survey, year, censusgeo(hierarchy), tables)
Download(r) ==
  /\ req[r].pc = "download"
  /\ \E columns \in DownloadColumns(dict_keys(req[r].table_label_dict)) :
       req' = [ req EXCEPT ![r].pc = "add_table_labels_row",
                           ![r].fetched = TRUE,
                           ![r].df_columns = columns ]
  /\ UNCHANGED << fips_df, state_fips, county_fips, tables_dict, hierarchies_dict,
               censustable, boundaries, api >>

\* df = self._add_table_labels_row(df, table_label_dict); return df
AddTableLabelsRow(r) ==
  /\ req[r].pc = "add_table_labels_row"
  /\ req' = [ req EXCEPT ![r].pc = "done",
                         ![r].returned = TRUE,
                         ![r].df = add_table_labels_row(req[r].df_columns,
                                                        req[r].table_label_dict) ]
  /\ UNCHANGED << fips_df, state_fips, county_fips, tables_dict, hierarchies_dict,
               censustable, boundaries, api >>

\* the caller has the frame or the exception; the call's locals are gone
Return(r) ==
  /\ req[r].pc = "done"
  /\ req' = [ req EXCEPT ![r] = IdleReq ]
  /\ UNCHANGED << fips_df, state_fips, county_fips, tables_dict, hierarchies_dict,
               censustable, boundaries, api >>

(* --------------------------- CensusBoundaries -------------------------- *)

\* f"{self.year}" of the default year=2018
year == << "2","0","1","8" >>

\* self.base_url
boundaries_base_url ==
  << "h","t","t","p","s",":","/","/","w","w","w","2",".","c","e","n",
     "s","u","s",".","g","o","v","/","g","e","o","/","t","i","g","e",
     "r","/","T","I","G","E","R" >> \o year \o << "/" >>

cousub == << "c","o","u","s","u","b" >>

ttract == << "t","t","r","a","c","t" >>

bg == << "b","g" >>

\* the keys of self.filepath_dict
BoundaryLevels == { county, cousub, tract, ttract, bg, block }

\* self.filepath_dict[level]["directory"]
directory(level) ==
  IF level = county THEN << "C","O","U","N","T","Y","/" >>
  ELSE IF level = cousub THEN << "C","O","U","S","U","B","/" >>
  ELSE IF level = tract THEN << "T","R","A","C","T","/" >>
  ELSE IF level = ttract THEN << "T","T","R","A","C","T","/" >>
  ELSE IF level = bg THEN << "B","G","/" >>
  ELSE << "T","A","B","B","L","O","C","K","/" >>

\* self.filepath_dict[level]["filename"](state_fip)
filename(level, state_fip) ==
  << "t","l","_" >> \o year \o << "_" >> \o
    ( IF level \in { county, ttract } THEN << "u","s" >> ELSE state_fip ) \o
    << "_" >> \o
    ( IF level = block THEN << "t","a","b","b","l","o","c","k","1","0" >> ELSE level ) \o
    << ".","z","i","p" >>

\* os.path.join(a, b) of posixpath
os_path_join(a, b) ==
  IF b # << >> /\ Head(b) = "/" THEN b
  ELSE IF a = << >> \/ a[Len(a)] = "/" THEN a \o b
  ELSE a \o << "/" >> \o b

\* _get_filepath
get_filepath(state_fip, level) ==
  os_path_join(os_path_join(boundaries_base_url, directory(level)),
               filename(level, state_fip))

\* no call of get_boundaries_gdf yet
NoBoundaries ==
  [ called |-> FALSE, state |-> << >>, level |-> << >>, error |-> "none",
    file_path |-> << >>, shp_files |-> 0, gdf |-> FALSE ]

\* get_boundaries_gdf(state, level); the zip file downloaded holds n_shp
\* .shp files and the first one is read
GetBoundariesGdf(state_name, level, n_shp) ==
  /\ boundaries' =
       IF state_name \notin DOMAIN state_fips
         THEN [ NoBoundaries EXCEPT !.called = TRUE, !.state = state_name,
                                    !.level = level,
                                    !.error = "KeyError: state_fips" ]
       ELSE IF level \notin BoundaryLevels
         THEN [ NoBoundaries EXCEPT !.called = TRUE, !.state = state_name,
                                    !.level = level,
                                    !.error = "KeyError: filepath_dict" ]
       ELSE [ NoBoundaries EXCEPT !.called = TRUE, !.state = state_name,
                                  !.level = level,
                                  !.file_path = get_filepath(state_fips[state_name], level),
                                  !.shp_files = n_shp,
                                  !.gdf = n_shp > 0 ]
  /\ UNCHANGED << fips_df, state_fips, county_fips, tables_dict, hierarchies_dict,
                  censustable, api, req >>

(* --------------------------------- API --------------------------------- *)

\* s.lstrip("/") and s.rstrip("/")
RECURSIVE lstrip(_)
lstrip(s) ==
  IF s # << >> /\ Head(s) = "/" THEN lstrip(Tail(s)) ELSE s

RECURSIVE rstrip(_)
rstrip(s) ==
  IF s # << >> /\ s[Len(s)] = "/" THEN rstrip(SubSeq(s, 1, Len(s) - 1)) ELSE s

\* base_url.strip('/')
strip(s) ==
  rstrip(lstrip(s))

\* sep.join(items)
RECURSIVE join(_, _)
join(sep, items) ==
  IF items = << >> THEN << >>
  ELSE IF Len(items) = 1 THEN items[1]
  ELSE items[1] \o sep \o join(sep, Tail(items))

\* the values of an options dict: None, a str, a list of str, a dict
NoneValue == [ kind |-> "None", str |-> << >>, list |-> << >>, dict |-> << >> ]

StrValue(v) == [ kind |-> "str", str |-> v, list |-> << >>, dict |-> << >> ]

ListValue(v) == [ kind |-> "list", str |-> << >>, list |-> v, dict |-> << >> ]

DictValue(v) == [ kind |-> "dict", str |-> << >>, list |-> << >>, dict |-> v ]

\* get_request_str: the loop over options.items() and the concatenation
RECURSIVE get_request_str(_, _)
get_request_str(base_url, options) ==
  LET options_list ==
        [ i \in DOMAIN options |->
            LET k == options[i].key
                v == options[i].value
            IN  IF v.kind = "None" THEN k
                ELSE IF v.kind = "str" THEN k \o << "=" >> \o v.str
                ELSE IF v.kind = "dict" THEN get_request_str(base_url, v.dict)
                ELSE join(k, v.list) ]
  IN  base_url \o join(<< >>, options_list)

\* no API object yet
NoApi ==
  [ constructed |-> FALSE, base_url |-> << >>, called |-> FALSE,
    options |-> << >>, request_str |-> << >> ]

\* API(base_url)
ApiInit(base_url) ==
  /\ ~api.constructed
  /\ api' = [ NoApi EXCEPT !.constructed = TRUE, !.base_url = strip(base_url) ]
  /\ UNCHANGED << fips_df, state_fips, county_fips, tables_dict, hierarchies_dict,
                  censustable, boundaries, req >>

\* request_str = api.get_request_str(options)
GetRequestStr(options) ==
  /\ api.constructed
  /\ ~api.called
  /\ api' = [ api EXCEPT !.called = TRUE, !.options = options,
                         !.request_str = get_request_str(api.base_url, options) ]
  /\ UNCHANGED << fips_df, state_fips, county_fips, tables_dict, hierarchies_dict,
                  censustable, boundaries, req >>

\* the caller has the request string; the object is ready for the next call
RequestStrReturn ==
  /\ api.called
  /\ api' = [ api EXCEPT !.called = FALSE, !.options = << >>, !.request_str = << >> ]
  /\ UNCHANGED << fips_df, state_fips, county_fips, tables_dict, hierarchies_dict,
                  censustable, boundaries, req >>

(* ------------------------------- inputs ------------------------------- *)

Absent == << >>

\* **kwargs: the levels that were given a value
Kwargs(sv, cv, tv, gv, bv) ==
  LET given == [ k \in { state, county, census_tract, block_group, block } |->
                   IF k = state THEN sv
                   ELSE IF k = county THEN cv
                   ELSE IF k = census_tract THEN tv
                   ELSE IF k = block_group THEN gv
                   ELSE bv ]
  IN  [ k \in { l \in DOMAIN given : given[l] # Absent } |-> given[k] ]

StateValues == { Absent, Wildcard, << "2","9" >>, Missouri, NewYork }

CountyValues ==
  { Absent, Wildcard, << "0","9","9" >>, JeffersonCounty, StLouisCounty, KingsCounty }

TractValues == { Absent, << "0","1","1","7","2","4" >> }

GeoKwargs ==
  { Kwargs(sv, cv, tv, gv, bv) :
      sv \in StateValues, cv \in CountyValues, tv \in TractValues,
      gv \in { Absent, Wildcard }, bv \in { Absent, Wildcard } }

\* the sheet and the csv of the runs in which the table side varies
FullSheet == SheetHeadRows \o SheetRowPool

StandardCsv == << CsvState, CsvStateCounty >> \o CsvRequiredRows

Ignored == << "I","g","n","o","r","e","d" >>

FewKwargs ==
  { Kwargs(Wildcard, Absent, Absent, Absent, Absent),
    Kwargs(Missouri, JeffersonCounty, Absent, Absent, Absent) }

PopTest ==
  << [ key |-> EstimateId(B01003, 1),
       value |-> << "P","o","p","u","l","a","t","i","o","n","!","!","T","e","s","t" >> ] >>

IncomeTest ==
  << [ key |-> EstimateId(B19013, 1), value |-> << "I","n","c","o","m","e" >> ] >>

TableItems ==
  { StrItem(pop), StrItem(age), StrItem(not_a_table), DictItem(PopTest), DictItem(IncomeTest) }

RECURSIVE SeqsUpTo(_, _)
SeqsUpTo(S, n) ==
  IF n = 0 THEN { << >> }
  ELSE LET shorter == SeqsUpTo(S, n - 1)
       IN  shorter \cup { Append(q, x) : q \in { t \in shorter : Len(t) = n - 1 }, x \in S }

TablesArgs == { NoneTables } \cup { ListTables(lst) : lst \in SeqsUpTo(TableItems, MaxTables) }

MetaSources ==
  { [ t \in BaseTables |-> IF t = B01003 THEN mp ELSE IF t = B01001 THEN ma ELSE DefaultMeta[t] ] :
      mp \in UNION { MetaTables(B01003, n, Labels) : n \in 0..MaxFields },
      ma \in UNION { MetaTables(B01001, n, { TotalLabel }) : n \in 0..MaxFields } }

(* --------------------------- specifications --------------------------- *)

\* the instance right after CensusDataAPI.__init__
Constructed(sheet, csv, meta) ==
  /\ fips_df = sheet
  /\ state_fips = get_state_fips_dict(sheet)
  /\ county_fips = get_county_fips_dict(sheet)
  /\ tables_dict = tables_dict_init
  /\ hierarchies_dict = get_hierarchies(csv)
  /\ censustable = meta
  /\ boundaries = NoBoundaries
  /\ api = NoApi
  /\ req = [ r \in RequestIds |-> IdleReq ]

\* one caller; the reference sheet, the hierarchy csv and the geography
\* arguments vary
Init ==
  \E sheet \in FipsSheets, csv \in HierarchyCsvs : Constructed(sheet, csv, DefaultMeta)

Next ==
  \/ \E kwargs \in GeoKwargs : Call("r1", ListTables(<< StrItem(pop) >>), kwargs)
  \/ GetTableLabelDict("r1")
  \/ ParseHierarchy("r1")
  \/ Download("r1")
  \/ AddTableLabelsRow("r1")
  \/ Return("r1")

Spec == Init /\ [][Next]_vars

\* one caller; the table metadata and the tables argument vary
InitTables ==
  \E meta \in MetaSources : Constructed(FullSheet, StandardCsv, meta)

NextTables ==
  \/ \E tables \in TablesArgs, kwargs \in FewKwargs : Call("r1", tables, kwargs)
  \/ GetTableLabelDict("r1")
  \/ ParseHierarchy("r1")
  \/ Download("r1")
  \/ AddTableLabelsRow("r1")
  \/ Return("r1")

SpecTables == InitTables /\ [][NextTables]_vars

\* the arguments of get_boundaries_gdf that are tried
BoundaryStateArgs == { Missouri, NewYork, << "2","9" >>, Ignored }

BoundaryLevelArgs == BoundaryLevels \cup { state }

\* a CensusBoundaries object; the reference sheet and the arguments vary
InitBoundaries ==
  \E sheet \in FipsSheets : Constructed(sheet, StandardCsv, DefaultMeta)

NextBoundaries ==
  \E state_name \in BoundaryStateArgs, level \in BoundaryLevelArgs,
     n_shp \in 0 .. MaxShpFiles :
    GetBoundariesGdf(state_name, level, n_shp)

SpecBoundaries == InitBoundaries /\ [][NextBoundaries]_vars

\* the calls of the runs in which a second call follows a first one whose
\* result the caller still holds
RepeatTables ==
  { NoneTables,
    ListTables(<< StrItem(pop) >>),
    ListTables(<< StrItem(pop), DictItem(PopTest) >>),
    ListTables(<< StrItem(not_a_table) >>) }

RepeatKwargs ==
  FewKwargs \cup
    { Kwargs(Ignored, Absent, Absent, Absent, Absent),
      Kwargs(Missouri, JeffersonCounty, << "0","1","1","7","2","4" >>, Wildcard, Wildcard) }

InitRepeat ==
  \E meta \in { m \in MetaSources : m[B01001] = DefaultMeta[B01001] } :
    Constructed(FullSheet, StandardCsv, meta)

\* "r1" is the first call; "r2" runs while the caller holds the result of "r1"
NextRepeat ==
  \/ /\ req["r2"].pc = "idle"
     /\ \/ \E tables \in RepeatTables, kwargs \in RepeatKwargs : Call("r1", tables, kwargs)
        \/ GetTableLabelDict("r1")
        \/ ParseHierarchy("r1")
        \/ Download("r1")
        \/ AddTableLabelsRow("r1")
        \/ Return("r1")
  \/ /\ req["r1"].pc = "done"
     /\ \/ \E tables \in RepeatTables, kwargs \in RepeatKwargs : Call("r2", tables, kwargs)
        \/ GetTableLabelDict("r2")
        \/ ParseHierarchy("r2")
        \/ Download("r2")
        \/ AddTableLabelsRow("r2")
        \/ Return("r2")

SpecRepeat == InitRepeat /\ [][NextRepeat]_vars

\* two callers on one instance; the steps of their calls interleave freely
ConcurrentTables ==
  { ListTables(<< StrItem(pop) >>),
    ListTables(<< StrItem(pop), DictItem(PopTest) >>),
    ListTables(<< StrItem(not_a_table) >>) }

InitConcurrent ==
  \E meta \in { m \in MetaSources : m[B01001] = DefaultMeta[B01001] } :
    Constructed(FullSheet, StandardCsv, meta)

NextConcurrent ==
  \E r \in RequestIds :
    \/ \E tables \in ConcurrentTables, kwargs \in RepeatKwargs : Call(r, tables, kwargs)
    \/ GetTableLabelDict(r)
    \/ ResolveCodes(r)
    \/ MatchHierarchy(r)
    \/ Download(r)
    \/ AddTableLabelsRow(r)
    \/ Return(r)

SpecConcurrent == InitConcurrent /\ [][NextConcurrent]_vars

\* the arguments of API(...) and of get_request_str that are tried
BaseUrlArgs ==
  { << "h",":","/","x" >>, << "h",":","/","x","/" >>,
    << "/","h",":","/","x","/","/" >>, << "/" >> }

OptionKeys == { << "/","d" >>, << "&","p" >>, << "%" >> }

FlatValues ==
  { NoneValue, StrValue(<< "t" >>), ListValue(<< << "1" >>, << "2" >> >>) }

OptionEntries(values) ==
  { [ key |-> k, value |-> v ] : k \in OptionKeys, v \in values }

\* a dict has no key twice
DistinctKeys(d) ==
  \A i, j \in DOMAIN d : d[i].key = d[j].key => i = j

\* the dicts that are given as a value of another dict
NestedOptions ==
  { << >> } \cup { << e >> : e \in OptionEntries(FlatValues) }

OptionsArgs ==
  { d \in SeqsUpTo(OptionEntries(FlatValues \cup { DictValue(n) : n \in NestedOptions }),
                   MaxOptions) : DistinctKeys(d) }

\* an API object of base_api; the base url and the options vary
InitRequestStr ==
  Constructed(FullSheet, StandardCsv, DefaultMeta)

NextRequestStr ==
  \/ \E base_url \in BaseUrlArgs : ApiInit(base_url)
  \/ \E options \in OptionsArgs : GetRequestStr(options)
  \/ RequestStrReturn

SpecRequestStr == InitRequestStr /\ [][NextRequestStr]_vars

(* ------------------------------- claims ------------------------------- *)

\* _parse_hierarchy has run to its end, or to the exception it raised
HierarchyParsed(r) ==
  /\ req[r].pc \in { "download", "add_table_labels_row", "done" }
  /\ req[r].error # "KeyError: tables_dict"

\* the definitions whose set of level names is the key set of kwargs
SetEqualDefs(kwargs) ==
  { i \in DOMAIN hierarchies_dict : Range(hierarchies_dict[i].value) = DOMAIN kwargs }

\* a value that is neither the wildcard marker nor a numeric code
IsPlaceName(v) == v # Absent /\ v # Wildcard /\ ~isnumeric(v)

\* the (level, value) pairs of a GeoQuery, as tuples
Pair(level, fip) == [ level |-> level, fip |-> fip ]

C2_NoMatchIsAnError ==
  \A r \in RequestIds :
    (HierarchyParsed(r) /\ SetEqualDefs(req[r].kwargs) = { }) => ~req[r].has_hierarchy

\* C3: when more than one hierarchy definition has a level set equal to the
\* key set, the query produces no GeoQuery.
C3_AmbiguityIsAnError ==
  \A r \in RequestIds :
    (HierarchyParsed(r) /\ Cardinality(SetEqualDefs(req[r].kwargs)) > 1) => ~req[r].has_hierarchy

\* the state rows of the sheet that give a name its code: the last row of
\* each name
StateRows ==
  LET rows == mask(fips_df, <<"0","4","0">>)
  IN  { rows[k] : k \in { i \in DOMAIN rows :
                            \A j \in DOMAIN rows :
                              rows[j].area_name = rows[i].area_name => j <= i } }

\* the county rows of the sheet that give a (state code, name) its code
CountyRows ==
  LET rows == mask(fips_df, <<"0","5","0">>)
  IN  { rows[k] : k \in { i \in DOMAIN rows :
                            \A j \in DOMAIN rows :
                              ( /\ rows[j].area_name = rows[i].area_name
                                /\ rows[j].state_fip = rows[i].state_fip ) => j <= i } }

\* C4: for every state name n the reference sheet maps to code c,
\* state_fips[n] = c and state_fips[c] = c.
C4_StateRoundTrip ==
  \A row \in StateRows :
    /\ row.area_name \in DOMAIN state_fips
    /\ state_fips[row.area_name] = row.state_fip
    /\ row.state_fip \in DOMAIN state_fips
    /\ state_fips[row.state_fip] = row.state_fip

\* a query looked a state of the sheet up by name and sent its code out
C4_Witness ==
  \E r \in RequestIds :
    /\ req[r].has_hierarchy
    /\ \E row \in StateRows :
         /\ state \in DOMAIN req[r].kwargs
         /\ req[r].kwargs[state] = row.area_name
         /\ Lookup("state_fips", StrKey(row.area_name)) \in Range(req[r].lookups)
         /\ Pair(state, row.state_fip) \in Range(req[r].hierarchy)

\* C5: for every county entry (state code s, county name n) the reference
\* sheet maps to code c, county_fips[(s, n)] = c and county_fips[(s, c)] = c.
C5_CountyRoundTrip ==
  \A row \in CountyRows :
    /\ TupleKey(row.state_fip, row.area_name) \in DOMAIN county_fips
    /\ county_fips[TupleKey(row.state_fip, row.area_name)] = row.county_fip
    /\ TupleKey(row.state_fip, row.county_fip) \in DOMAIN county_fips
    /\ county_fips[TupleKey(row.state_fip, row.county_fip)] = row.county_fip

\* C6: a query whose state value is a state name of the registry builds
\* its "state" pair with the code of that name.
C6_StateNameResolved ==
  \A r \in RequestIds :
    \A row \in StateRows :
      ( /\ req[r].has_hierarchy
        /\ state \in DOMAIN req[r].kwargs
        /\ req[r].kwargs[state] = row.area_name ) =>
        \A j \in DOMAIN req[r].hierarchy :
          req[r].hierarchy[j].level = state => req[r].hierarchy[j].fip = row.state_fip

\* C7: with a [state, county] hierarchy defined, a query {state: s, county: n}
\* for a state name s of code sc and a county name n registered under
\* (sc, n) with code cc yields the GeoQuery [("state", sc), ("county", cc)].
C7_CountyChained ==
  \A r \in RequestIds :
    \A srow \in StateRows :
      \A crow \in CountyRows :
        ( /\ HierarchyParsed(r)
          /\ DOMAIN req[r].kwargs = { state, county }
          /\ req[r].kwargs[state] = srow.area_name
          /\ req[r].kwargs[county] = crow.area_name
          /\ crow.state_fip = srow.state_fip
          /\ SetEqualDefs(req[r].kwargs) # { }
          /\ \A i \in SetEqualDefs(req[r].kwargs) :
               hierarchies_dict[i].value = << state, county >> ) =>
          /\ req[r].has_hierarchy
          /\ req[r].hierarchy = << Pair(state, srow.state_fip), Pair(county, crow.county_fip) >>

\* the dictionary _parse_hierarchy resolves a level with
RegistryOf(level) ==
  IF level = state THEN "state_fips" ELSE IF level = county THEN "county_fips" ELSE "none"

\* C8: a geography value that is "*" or a numeric code is never looked up
\* in the registry of its level, raises no KeyError of that registry, and is
\* the value of the pair of its level in the GeoQuery.
C8_CodesAndWildcardsPassThrough ==
  \A r \in RequestIds :
    \A level \in DOMAIN req[r].kwargs :
      LET v == req[r].kwargs[level]
      IN  (v = Wildcard \/ isnumeric(v)) =>
            /\ \A j \in DOMAIN req[r].hierarchy :
                 req[r].hierarchy[j].level = rename_level(level) => req[r].hierarchy[j].fip = v
            /\ \A k \in DOMAIN req[r].lookups : req[r].lookups[k].dict # RegistryOf(level)
            /\ level = state => req[r].error # "KeyError: state_fips"
            /\ level = county => req[r].error # "KeyError: county_fips"

\* a query of a state code, a county code, a tract code and a wildcard
\* block group was resolved
C8_Witness ==
  \E r \in RequestIds :
    /\ req[r].has_hierarchy
    /\ req[r].lookups = << >>
    /\ req[r].hierarchy =
         << Pair(state, << "2","9" >>), Pair(county, << "0","9","9" >>),
            Pair(tract, << "0","1","1","7","2","4" >>), Pair(block_group_sp, Wildcard) >>

\* the state or the county value of kwargs is a place name that the
\* reference sheet does not have
HasUnknownPlaceName(kwargs) ==
  \/ /\ IsPlaceName(kwargs_get(kwargs, state))
     /\ \A row \in StateRows :
          row.area_name # kwargs[state]
  \/ /\ IsPlaceName(kwargs_get(kwargs, county))
     /\ \A row \in CountyRows :
          row.area_name # kwargs[county]

\* C9: a query whose state or county value is a place name absent from the
\* reference sheet produces no GeoQuery and issues no downstream fetch.
C9_UnknownNameFails ==
  \A r \in RequestIds :
    HasUnknownPlaceName(req[r].kwargs) => (~req[r].has_hierarchy /\ ~req[r].fetched)

\* the identifier with only its last character replaced by M
TrailingEToM(id) == SubSeq(id, 1, Len(id) - 1) \o << "M" >>

\* d is made of estimate/margin pairs built from the metadata fields meta
IsPaired(d, meta) ==
  /\ Len(d) = 2 * Len(meta)
  /\ Cardinality(Range(dict_keys(d))) = Len(d)
  /\ \A i \in DOMAIN meta :
       /\ d[2 * i - 1].key = meta[i].key
       /\ d[2 * i - 1].key[Len(d[2 * i - 1].key)] = "E"
       /\ d[2 * i - 1].value = meta[i].value.concept \o << "!","!" >> \o meta[i].value.label
       /\ d[2 * i].key = TrailingEToM(d[2 * i - 1].key)
       /\ d[2 * i].value = << "M","O","E","!","!" >> \o d[2 * i - 1].value

\* C10: every alias expansion has even size; each estimate identifier is
\* immediately followed by its margin identifier, which differs only in
\* the trailing E replaced by M, and whose label is "MOE!!" followed by the
\* estimate's label "<concept>!!<field label>".
C10_ColumnPairing ==
  /\ \A a \in DOMAIN tables_dict :
       IsPaired(parse_table_str(StrItem(a)), censustable[tables_dict[a]])
  /\ \A r \in RequestIds :
       \A a \in DOMAIN tables_dict :
         ( /\ req[r].pc \in { "parse_hierarchy", "download", "add_table_labels_row" }
           /\ req[r].tables = ListTables(<< StrItem(a) >>) ) =>
           IsPaired(req[r].table_label_dict, censustable[tables_dict[a]])

\* an alias whose base table has two fields was expanded to four columns
C10_Witness ==
  \E r \in RequestIds :
    /\ req[r].pc = "parse_hierarchy"
    /\ req[r].tables = ListTables(<< StrItem(pop) >>)
    /\ Len(censustable[B01003]) = 2
    /\ Len(req[r].table_label_dict) = 4

\* the table argument holds a string that is no alias of tables_dict
HasUnknownAlias(tables) ==
  \E i \in DOMAIN tables :
    /\ ~tables[i].isdict
    /\ tables[i].str \notin { pop, HI, med_HI, agg_HI, age }

\* C11: a query with an unrecognized alias string fails with the KeyError
\* of tables_dict before any geography work: no registry lookup, no
\* hierarchy match, no downstream fetch, no column map and no frame.
C11_UnknownTableFailsFirst ==
  \A r \in RequestIds :
    ( /\ req[r].pc \notin { "idle", "get_table_label_dict" }
      /\ HasUnknownAlias(tables_or_default(req[r].tables)) ) =>
      /\ req[r].pc = "done"
      /\ req[r].error = "KeyError: tables_dict"
      /\ req[r].lookups = << >>
      /\ req[r].hierarchy_list = << >>
      /\ ~req[r].has_hierarchy
      /\ ~req[r].fetched
      /\ ~req[r].returned
      /\ req[r].table_label_dict = << >>
      /\ req[r].df = NoFrame

\* a query with an unknown alias and a geography that needs two lookups
\* has failed
C11_Witness ==
  \E r \in RequestIds :
    /\ req[r].pc = "done"
    /\ req[r].tables = ListTables(<< StrItem(not_a_table) >>)
    /\ req[r].kwargs = Kwargs(Missouri, JeffersonCounty, Absent, Absent, Absent)
    /\ req[r].error = "KeyError: tables_dict"

\* the columns of the downloaded frame that table_label_dict has no label for
UnlabeledColumns(r) ==
  { req[r].df_columns[i] : i \in DOMAIN req[r].df_columns } \
    Range(dict_keys(req[r].table_label_dict))

\* C12: when the downloaded frame has a column that the label map has no
\* entry for, the call fails with an error: no frame is returned in which
\* that column is missing, unlabeled or labeled with nothing.
C12_UnlabeledColumnIsAnError ==
  \A r \in RequestIds :
    ( req[r].pc = "done" /\ req[r].fetched /\ UnlabeledColumns(r) # { } ) =>
      /\ ~req[r].returned
      /\ req[r].error # "none"
      /\ req[r].df = NoFrame

\* C13: a literal identifier -> label dict in the table list is expanded to
\* exactly that dict: no margin-of-error entries, no rewritten labels, and
\* censusdata.censustable is asked only for the aliases of the list.
C13_LiteralPassesThrough ==
  \A r \in RequestIds :
    LET tables == tables_or_default(req[r].tables)
    IN  ( /\ req[r].pc \notin { "idle", "get_table_label_dict" }
          /\ req[r].error # "KeyError: tables_dict" ) =>
          /\ \A i \in DOMAIN tables :
               tables[i].isdict => parse_table_str(tables[i]) = tables[i].dict
          /\ Len(req[r].censustable_calls) =
               Cardinality({ i \in DOMAIN tables : ~tables[i].isdict })
          /\ ( Len(tables) = 1 /\ tables[1].isdict ) =>
               /\ req[r].table_label_dict = tables[1].dict
               /\ req[r].censustable_calls = << >>

\* get_data([{"B01003_001E": "Population!!Test"}], ...) has expanded its
\* table list
C13_Witness ==
  \E r \in RequestIds :
    /\ req[r].pc = "parse_hierarchy"
    /\ req[r].tables = ListTables(<< DictItem(PopTest) >>)
    /\ req[r].table_label_dict = PopTest

\* C14: an empty table list is no error: the column map is empty and the
\* geography is resolved as usual; with the definition [state] loaded,
\* get_data([], state="*") builds [("state", "*")].
C14_EmptyTableList ==
  \A r \in RequestIds :
    ( /\ req[r].tables = ListTables(<< >>)
      /\ req[r].pc \notin { "idle", "get_table_label_dict" } ) =>
      /\ req[r].error # "KeyError: tables_dict"
      /\ req[r].table_label_dict = << >>
      /\ req[r].censustable_calls = << >>
      /\ ( /\ HierarchyParsed(r)
           /\ req[r].kwargs = Kwargs(Wildcard, Absent, Absent, Absent, Absent)
           /\ \E i \in DOMAIN hierarchies_dict :
                hierarchies_dict[i].value = << state >> ) =>
           /\ req[r].error = "none"
           /\ req[r].has_hierarchy
           /\ req[r].hierarchy = << Pair(state, Wildcard) >>

\* get_data([], state="*") has built its GeoQuery
C14_Witness ==
  \E r \in RequestIds :
    /\ req[r].tables = ListTables(<< >>)
    /\ req[r].kwargs = Kwargs(Wildcard, Absent, Absent, Absent, Absent)
    /\ req[r].pc = "download"
    /\ req[r].table_label_dict = << >>
    /\ req[r].hierarchy = << Pair(state, Wildcard) >>

\* the key set of kwargs is the union of the level sets of two distinct
\* definitions of hierarchies_dict
IsUnionOfTwoDefs(kwargs) ==
  \E i, j \in DOMAIN hierarchies_dict :
    /\ i # j
    /\ hierarchies_dict[i].value # hierarchies_dict[j].value
    /\ DOMAIN kwargs =
         Range(hierarchies_dict[i].value) \cup Range(hierarchies_dict[j].value)

\* C15: a query whose key set is the union of the level sets of two
\* distinct definitions, and is itself the level set of no definition, fails
\* with an error of the matching: the code never picks a definition for it.
C15_UnionOfTwoIsAnError ==
  \A r \in RequestIds :
    ( /\ HierarchyParsed(r)
      /\ IsUnionOfTwoDefs(req[r].kwargs)
      /\ SetEqualDefs(req[r].kwargs) = { } ) =>
      /\ ~req[r].has_hierarchy
      /\ req[r].hierarchy_list = << >>
      /\ req[r].error # "none"

\* the nationwide TIGER/Line files of 2018
UsCountyFile ==
  << "h","t","t","p","s",":","/","/","w","w","w","2",".","c","e","n",
     "s","u","s",".","g","o","v","/","g","e","o","/","t","i","g","e",
     "r","/","T","I","G","E","R","2","0","1","8","/","C","O","U","N",
     "T","Y","/","t","l","_","2","0","1","8","_","u","s","_","c","o",
     "u","n","t","y",".","z","i","p" >>

UsTtractFile ==
  << "h","t","t","p","s",":","/","/","w","w","w","2",".","c","e","n",
     "s","u","s",".","g","o","v","/","g","e","o","/","t","i","g","e",
     "r","/","T","I","G","E","R","2","0","1","8","/","T","T","R","A",
     "C","T","/","t","l","_","2","0","1","8","_","u","s","_","t","t",
     "r","a","c","t",".","z","i","p" >>

\* C16: for the boundary levels county and ttract the state argument of
\* get_boundaries_gdf is ignored: the call raises no error and requests the
\* same nationwide file whatever the state argument is, a string that is no
\* state included.
C16_StateIgnoredForNationwideLevels ==
  ( boundaries.called /\ boundaries.level \in { county, ttract } ) =>
    /\ boundaries.error = "none"
    /\ boundaries.file_path =
         IF boundaries.level = county THEN UsCountyFile ELSE UsTtractFile

\* the value kwargs holds for a level when the pairs are built: the code a
\* logged lookup gave, or else the value of the call
ValueAtBuild(r, level) ==
  LET made == { i \in DOMAIN req[r].lookups :
                  req[r].lookups[i].dict =
                    IF level = state THEN "state_fips"
                    ELSE IF level = county THEN "county_fips"
                    ELSE "none" }
  IN  IF made = { } THEN req[r].kwargs[level]
      ELSE LET k == req[r].lookups[CHOOSE i \in made : TRUE].key
           IN  IF level = state THEN state_fips[k.a] ELSE county_fips[k]

\* C17: the GeoQuery is built from the matched definition with the levels
\* renamed at build time only: census_tract becomes tract, block_group
\* becomes "block group", every other level keeps its name; each pair keeps
\* the value of its level; order and length are those of the definition.
C17_RenameAtBuildTime ==
  \A r \in RequestIds :
    req[r].has_hierarchy =>
      /\ Len(req[r].hierarchy) = Len(req[r].hierarchy_list)
      /\ \A j \in DOMAIN req[r].hierarchy_list :
           LET level == req[r].hierarchy_list[j]
           IN  /\ j \in DOMAIN req[r].hierarchy
               /\ level \in DOMAIN req[r].kwargs
               /\ req[r].hierarchy[j].level =
                    IF level = census_tract THEN tract
                    ELSE IF level = block_group THEN block_group_sp
                    ELSE level
               /\ req[r].hierarchy[j].fip = ValueAtBuild(r, level)

\* get_data(..., state="Missouri", county="Jefferson County",
\* census_tract=..., block_group="*") has built its four pairs
C17_Witness ==
  \E r \in RequestIds :
    /\ req[r].has_hierarchy
    /\ req[r].hierarchy_list = << state, county, census_tract, block_group >>
    /\ req[r].kwargs[state] = Missouri
    /\ req[r].kwargs[county] = JeffersonCounty
    /\ Len(req[r].hierarchy) = 4
    /\ req[r].hierarchy[1] = Pair(state, << "2","9" >>)
    /\ req[r].hierarchy[2] = Pair(county, << "0","9","9" >>)
    /\ req[r].hierarchy[3].level = tract
    /\ req[r].hierarchy[4] = Pair(block_group_sp, Wildcard)

\* the five levels down to the block, as keys of a call
BlockKeys == { state, county, census_tract, block_group, block }

\* the "block" definition is the "block_group" definition and a trailing
\* block
BlockIsDerived ==
  /\ dict_has(hierarchies_dict, block_group)
  /\ dict_has(hierarchies_dict, block)
  /\ dict_get(hierarchies_dict, block) =
       Append(dict_get(hierarchies_dict, block_group), block)

\* C18 as stated: the match for the keys state, county, census_tract,
\* block_group, block returns the levels state, county, census_tract,
\* "block group" (with a space), block.
C18_BlockLevelsAsStated ==
  \A r \in RequestIds :
    ( req[r].has_hierarchy /\ DOMAIN req[r].kwargs = BlockKeys ) =>
      req[r].hierarchy_list =
        << state, county, census_tract, block_group_sp, block >>

\* C18: the "block" definition is derived: the levels of the block group
\* definition followed by block. The match for the keys state, county,
\* census_tract, block_group, block returns the five levels state, county,
\* census_tract, block_group, block, in this order and under the names of
\* the keys: neither rename of the build stage is applied yet.
C18_BlockHierarchyDerived ==
  /\ BlockIsDerived
  /\ \A r \in RequestIds :
       ( /\ HierarchyParsed(r)
         /\ DOMAIN req[r].kwargs = BlockKeys
         /\ req[r].error \notin { "KeyError: state_fips", "KeyError: county_fips" } ) =>
         /\ req[r].has_hierarchy
         /\ req[r].hierarchy_list =
              << state, county, census_tract, block_group, block >>

\* a query down to the block has been matched
C18_Witness ==
  \E r \in RequestIds :
    /\ req[r].has_hierarchy
    /\ DOMAIN req[r].kwargs = BlockKeys
    /\ req[r].hierarchy_list = << state, county, census_tract, block_group, block >>
    /\ req[r].hierarchy[4].level = block_group_sp

\* the dicts _get_table_dict merges for a call, in list order
TableDicts(r) ==
  LET tables == tables_or_default(req[r].tables)
  IN  [ i \in DOMAIN tables |-> parse_table_str(tables[i]) ]

\* where an identifier is seen first: the first dict that has it, and its
\* place in that dict
FirstDict(parts, k) ==
  CHOOSE i \in DOMAIN parts :
    /\ dict_has(parts[i], k)
    /\ \A j \in DOMAIN parts : dict_has(parts[j], k) => i <= j

LastDict(parts, k) ==
  CHOOSE i \in DOMAIN parts :
    /\ dict_has(parts[i], k)
    /\ \A j \in DOMAIN parts : dict_has(parts[j], k) => j <= i

PlaceIn(d, k) == CHOOSE i \in DOMAIN d : d[i].key = k

SeenBefore(parts, k1, k2) ==
  \/ FirstDict(parts, k1) < FirstDict(parts, k2)
  \/ /\ FirstDict(parts, k1) = FirstDict(parts, k2)
     /\ PlaceIn(parts[FirstDict(parts, k1)], k1) < PlaceIn(parts[FirstDict(parts, k2)], k2)

\* C19: the expansions of a table list are merged in list order: every
\* identifier of any expansion appears exactly once, at the place where it
\* was first seen, with the label of the last expansion that has it.
C19_MergeInListOrder ==
  \A r \in RequestIds :
    ( /\ req[r].pc \notin { "idle", "get_table_label_dict" }
      /\ req[r].error # "KeyError: tables_dict" ) =>
      LET parts == TableDicts(r)
          m     == req[r].table_label_dict
      IN  /\ \A a, b \in DOMAIN m : m[a].key = m[b].key => a = b
          /\ Range(dict_keys(m)) =
               UNION { Range(dict_keys(parts[i])) : i \in DOMAIN parts }
          /\ \A a \in DOMAIN m :
               /\ \E i \in DOMAIN parts : dict_has(parts[i], m[a].key)
               /\ m[a].value = dict_get(parts[LastDict(parts, m[a].key)], m[a].key)
          /\ \A a, b \in DOMAIN m :
               ( /\ a < b
                 /\ \E i \in DOMAIN parts : dict_has(parts[i], m[a].key)
                 /\ \E i \in DOMAIN parts : dict_has(parts[i], m[b].key) ) =>
                 SeenBefore(parts, m[a].key, m[b].key)

\* get_data(["pop", {"B01003_001E": "Population!!Test"}], ...) has merged
\* its two expansions: the identifier of both is first, with the label of
\* the literal
C19_Witness ==
  \E r \in RequestIds :
    /\ req[r].pc = "parse_hierarchy"
    /\ req[r].tables = ListTables(<< StrItem(pop), DictItem(PopTest) >>)
    /\ Len(req[r].table_label_dict) = 2
    /\ req[r].table_label_dict[1] = PopTest[1]
    /\ dict_has(parse_table_str(StrItem(pop)), PopTest[1].key)
    /\ dict_get(parse_table_str(StrItem(pop)), PopTest[1].key) # PopTest[1].value

\* the tables argument has been expanded, or has raised
Expanded(r) == req[r].pc \notin { "idle", "get_table_label_dict" }

\* C20: the resolver keeps no hidden state: no step of any call, failed or
\* not, changes state_fips, county_fips, tables_dict or hierarchies_dict,
\* so a call made after other calls expands the same tables argument to the
\* same column map and resolves the same geography to the same GeoQuery as
\* the call before it.
C20_NoHiddenState ==
  /\ [][ /\ state_fips' = state_fips
         /\ county_fips' = county_fips
         /\ tables_dict' = tables_dict
         /\ hierarchies_dict' = hierarchies_dict ]_vars
  /\ [] ( /\ ( /\ Expanded("r1") /\ Expanded("r2")
               /\ req["r1"].tables = req["r2"].tables ) =>
               /\ req["r1"].table_label_dict = req["r2"].table_label_dict
               /\ ( req["r1"].error = "KeyError: tables_dict" <=>
                    req["r2"].error = "KeyError: tables_dict" )
          /\ ( /\ HierarchyParsed("r1") /\ HierarchyParsed("r2")
               /\ req["r1"].kwargs = req["r2"].kwargs ) =>
               /\ req["r1"].hierarchy = req["r2"].hierarchy
               /\ req["r1"].lookups = req["r2"].lookups
               /\ req["r1"].error = req["r2"].error )

\* get_data(["pop"], ...) has been called a second time after a first call
\* down to the block, and both have the same column map and GeoQuery
C20_Witness ==
  /\ req["r1"].pc = "done"
  /\ req["r2"].pc = "done"
  /\ req["r1"].tables = ListTables(<< StrItem(pop) >>)
  /\ req["r2"].tables = req["r1"].tables
  /\ DOMAIN req["r1"].kwargs = BlockKeys
  /\ req["r2"].kwargs = req["r1"].kwargs
  /\ req["r1"].has_hierarchy
  /\ req["r2"].hierarchy = req["r1"].hierarchy
  /\ req["r1"].table_label_dict # << >>
  /\ req["r2"].table_label_dict = req["r1"].table_label_dict
  /\ hierarchies_dict = get_hierarchies(StandardCsv)

\* the instance is as CensusDataAPI.__init__ left it
AsConstructed ==
  /\ state_fips = get_state_fips_dict(FullSheet)
  /\ county_fips = get_county_fips_dict(FullSheet)
  /\ tables_dict = tables_dict_init
  /\ hierarchies_dict = get_hierarchies(StandardCsv)

\* C21: two calls whose steps interleave on one constructed instance do not
\* interfere: the instance stays as constructed, and each call has the
\* column map and the GeoQuery, or the error, that its own arguments give on
\* that instance, whatever the other call does in between.
C21_NoInterference ==
  /\ AsConstructed
  /\ \A r \in RequestIds :
       LET tables == tables_or_default(req[r].tables)
           alone  == parse_hierarchy(req[r].kwargs)
       IN  /\ Expanded(r) =>
                IF get_table_dict_raises(tables)
                  THEN /\ req[r].error = "KeyError: tables_dict"
                       /\ req[r].table_label_dict = << >>
                  ELSE req[r].table_label_dict = get_table_dict(tables)
           /\ HierarchyParsed(r) =>
                /\ req[r].error = alone.error
                /\ req[r].lookups = alone.lookups
                /\ req[r].hierarchy_list = alone.hierarchy_list
                /\ req[r].hierarchy = alone.hierarchy
                /\ req[r].has_hierarchy = alone.has_hierarchy

\* "r2" has run a whole query down to the block while "r1", with another
\* geography, stands between its code resolution and its hierarchy match
C21_Witness ==
  /\ req["r1"].pc = "match_hierarchy"
  /\ req["r1"].kwargs = Kwargs(Missouri, JeffersonCounty, Absent, Absent, Absent)
  /\ req["r1"].resolved # req["r1"].kwargs
  /\ req["r2"].pc = "done"
  /\ req["r2"].returned
  /\ DOMAIN req["r2"].kwargs = BlockKeys
  /\ Len(req["r2"].hierarchy) = 5
  /\ req["r2"].tables # req["r1"].tables

\* the renderings of the options in insertion order, as the claim lists
\* them: the key for None, key=value for a str, the items joined by the key
\* for a list, and for a nested dict the renderings of its own options
RECURSIVE Renderings(_)
Renderings(options) ==
  IF options = << >> THEN << >>
  ELSE LET k == Head(options).key
           v == Head(options).value
       IN  ( IF v.kind = "None" THEN k
             ELSE IF v.kind = "str" THEN k \o << "=" >> \o v.str
             ELSE IF v.kind = "dict" THEN Renderings(v.dict)
             ELSE join(k, v.list) ) \o Renderings(Tail(options))

\* C22: get_request_str returns the stripped base url once, as a prefix,
\* followed by the renderings of the options in insertion order, also when
\* a value of the options is itself a dict of options.
C22_BaseUrlOnceThenOptions ==
  api.called => api.request_str = api.base_url \o Renderings(api.options)

=============================================================================
